---- MODULE Spec2Model ----
(***************************************************************************)
(* Resource lifecycle and audit subsystem of BREEV (Django app `app`).     *)
(*                                                                         *)
(* The database tables are the state: app_environment, app_equipment,      *)
(* app_equipmenttransfer and app_environmentrequest.  Every view of        *)
(* app/views.py and every admin action of app/admin.py is one action that  *)
(* handles a request from CurrentUserMiddleware's entry to its exit with   *)
(* no other request in between.  SpecThreads handles requests on several   *)
(* threads step by step: the middleware's assignment of the thread-local   *)
(* user, the view, the database write of a save, the middleware's finally. *)
(*                                                                         *)
(* Modelled columns: Environment(name, status, ativo, created_by,          *)
(* updated_by), Equipment(serial_number, environment, ativo, created_by,   *)
(* updated_by), EquipmentTransfer(equipment, from_environment,             *)
(* to_environment, transferred_by), EnvironmentRequest(environment, user,  *)
(* status).                                                                *)
(***************************************************************************)
EXTENDS Integers, Sequences, FiniteSets, TLC

\* ------------------------------------------------------------------ bounds
\* Rows ever inserted per table (primary keys are never reused).
MaxEnv == 2
MaxEq == 2
MaxReq == 2
MaxTransfers == 2

\* ------------------------------------------------------------- value domains
\* A NULL foreign key / an unsaved instance's pk (primary keys start at 1).
NULL == 0
\* get_current_user() when no request is being handled on the thread.
None == "None"
\* django's AnonymousUser: a user object whose is_authenticated is False.
AnonymousUser == "AnonymousUser"

Users == {"ana", "bob", "carl"}

\* request.user.is_staff
is_staff(u) == u \in {"ana"}

\* request.user.has_perm(perm): bob holds the six model permissions the views ask for.
has_perm(u, perm) ==
    /\ u = "bob"
    /\ perm \in {"app.add_environment", "app.change_environment", "app.delete_environment",
                 "app.add_equipment", "app.change_equipment", "app.delete_equipment"}

\* user.is_authenticated
is_authenticated(u) == u \in Users

\* Profile.role of each user (ROLE_CHOICES).
profile_role(u) ==
    CASE u = "ana" -> "admin"
      [] u = "bob" -> "func"
      [] OTHER -> "aluno"

\* Environment.STATUS_CHOICES: the values a validated form accepts for status.
STATUS_CHOICES == {"disponivel", "em_uso", "manutencao"}

\* EnvironmentRequest.STATUS_CHOICES
REQUEST_STATUS_CHOICES == {"pending", "approved", "rejected"}

Methods == {"GET", "POST"}

\* Names are sequences of characters, so that case folding is computed.
Names == { <<"L", "a">>, <<"l", "a">>, <<"S", "1">> }
Serials == { <<"X", "1">>, <<"x", "1">> }

\* Day numbers; a date field holds a set: {} for no date, {d} for day d.
Today == 1
DateInputs == { {}, {Today - 1}, {Today}, {Today + 1} }

\* str.lower() on one character.
LowerChar(c) ==
    CASE c = "L" -> "l"
      [] c = "A" -> "a"
      [] c = "S" -> "s"
      [] c = "X" -> "x"
      [] OTHER -> c

\* str.lower()
Lower(s) == [i \in DOMAIN s |-> LowerChar(s[i])]

\* The __iexact lookup.
iexact(a, b) == Lower(a) = Lower(b)

\* ------------------------------------------------------------------- state
VARIABLES
    environments,   \* app_environment: pk -> row
    equipments,     \* app_equipment: pk -> row
    transfers,      \* app_equipmenttransfer: rows in insertion order
    requests,       \* app_environmentrequest: pk -> row
    seq,            \* last primary key handed out per table
    response,       \* what the last handled request was and how it ended
    _thread_locals, \* middleware._thread_locals: thread -> its `user` attribute
    inflight        \* thread -> the request CurrentUserMiddleware is handling on it

vars == <<environments, equipments, transfers, requests, seq, response,
          _thread_locals, inflight>>

\* The record kept of the last handled request.
\* op, user, method, pk: the handler, request.user, the HTTP method, the pk in the URL
\* (for a create, the pk of the new row); outcome: how the handler ended;
\* environment, date: the posted environment / request_for_date; selected: the ids
\* ticked for an admin action; result: the rows the response shows.
Response(op, user, method, pk, outcome, environment, selected, result, date) ==
    [op |-> op, user |-> user, method |-> method, pk |-> pk, outcome |-> outcome,
     environment |-> environment, selected |-> selected, result |-> result,
     date |-> date]

Resp(op, user, method, pk, outcome, environment, selected, result) ==
    Response(op, user, method, pk, outcome, environment, selected, result, {})

\* ---------------------------------------------------------------- table helpers
Insert(table, pk, row) ==
    [k \in DOMAIN table \cup {pk} |-> IF k = pk THEN row ELSE table[k]]

Remove(table, pks) == [k \in DOMAIN table \ pks |-> table[k]]

Empty == [k \in {} |-> NULL]

\* -------------------------------------------------------------- managers
\* get_queryset without the filter on ativo.
SoftDeleteManager_get_queryset_all(table) == DOMAIN table

\* SoftDeleteManager.get_queryset: the rows of the default manager `objects`.
SoftDeleteManager_get_queryset(table) == {pk \in DOMAIN table : table[pk].ativo}

\* models.Manager(): the all-rows manager `all_objects`.
all_objects(table) == DOMAIN table

\* get_object_or_404(Model, pk=pk) goes through the default manager.
get_object_or_404(table, pk) == pk \in SoftDeleteManager_get_queryset(table)

\* ------------------------------------------------------------ authorisation
\* The test of the write views answering yes to every user.
may_anyone(u, perm) == TRUE

\* `request.user.is_staff or request.user.has_perm(perm)` of the six write views.
may(u, perm) == is_staff(u) \/ has_perm(u, perm)

\* ------------------------------------------------------------- Environment
\* A new Environment instance as the model form builds it before save().
new_environment(name, status) ==
    [name |-> name, status |-> status, ativo |-> TRUE,
     created_by |-> None, updated_by |-> None]

\* EnvironmentForm.clean_name: case-insensitive clash among the rows of `objects`.
EnvironmentForm_clean_name(name, instance_pk) ==
    ~ \E k \in SoftDeleteManager_get_queryset(environments) \ {instance_pk} :
          iexact(environments[k].name, name)

\* name = CharField(unique=True): the table's unique index, exact match, every row.
environment_name_unique(name, instance_pk) ==
    ~ \E k \in DOMAIN environments \ {instance_pk} : environments[k].name = name

\* Environment.save with the created_by guard on `not self.pk` left out.
Environment_save_restamp(self, pk, user) ==
    LET stamped == IF self.created_by = None /\ is_authenticated(user)
                   THEN [self EXCEPT !.created_by = user]
                   ELSE self
    IN  IF is_authenticated(user) THEN [stamped EXCEPT !.updated_by = user] ELSE stamped

\* Environment.save: the row written for instance `self` whose pk is `pk`
\* (NULL before the first save) while `user` is get_current_user().
Environment_save(self, pk, user) ==
    LET stamped == IF pk = NULL /\ self.created_by = None /\ is_authenticated(user)
                   THEN [self EXCEPT !.created_by = user]
                   ELSE self
    IN  IF is_authenticated(user) THEN [stamped EXCEPT !.updated_by = user] ELSE stamped

\* Equipment.environment with on_delete CASCADE.
equipments_after_environment_delete_cascade(pk) ==
    Remove(equipments, {k \in DOMAIN equipments : equipments[k].environment = pk})

\* on_delete of the foreign keys that point to Environment, applied by env.delete():
\* Equipment.environment SET_NULL.
equipments_after_environment_delete(pk) ==
    [k \in DOMAIN equipments |->
        IF equipments[k].environment = pk
        THEN [equipments[k] EXCEPT !.environment = NULL]
        ELSE equipments[k]]

\* EquipmentTransfer.from_environment / to_environment SET_NULL.
transfers_after_environment_delete(pk) ==
    [i \in DOMAIN transfers |->
        [transfers[i] EXCEPT
            !.from_environment = IF @ = pk THEN NULL ELSE @,
            !.to_environment = IF @ = pk THEN NULL ELSE @]]

\* EnvironmentRequest.environment CASCADE.
requests_after_environment_delete(pk) ==
    Remove(requests, {r \in DOMAIN requests : requests[r].environment = pk})

\* views.environment_list (the rows of the queryset before pagination).
environment_list(u) ==
    /\ response' = Resp("environment_list", u, "GET", NULL,
                        IF is_authenticated(u) THEN "ok" ELSE "login", NULL, {},
                        IF is_authenticated(u)
                        THEN SoftDeleteManager_get_queryset(environments) ELSE {})
    /\ UNCHANGED <<_thread_locals, inflight>>
    /\ UNCHANGED <<environments, equipments, transfers, requests, seq>>

\* views.environment_detail: the environment, and in `selected` its equipments
\* (env.equipments is a related manager built on Equipment's default manager).
environment_detail(u, pk) ==
    LET outcome == IF ~is_authenticated(u) THEN "login"
                   ELSE IF ~get_object_or_404(environments, pk) THEN "not_found"
                   ELSE "ok"
    IN  /\ response' = Resp("environment_detail", u, "GET", pk, outcome, NULL,
                            IF outcome = "ok"
                            THEN {e \in SoftDeleteManager_get_queryset(equipments) :
                                      equipments[e].environment = pk}
                            ELSE {},
                            IF outcome = "ok" THEN {pk} ELSE {})
        /\ UNCHANGED <<_thread_locals, inflight>>
        /\ UNCHANGED <<environments, equipments, transfers, requests, seq>>

\* views.environment_create
environment_create(u, method, name, status) ==
    LET pk == seq.environment + 1
        outcome ==
            IF ~is_authenticated(u) THEN "login"
            ELSE IF ~may(u, "app.add_environment") THEN "denied"
            ELSE IF method # "POST" THEN "form"
            ELSE IF ~EnvironmentForm_clean_name(name, NULL) THEN "invalid"
            ELSE IF ~environment_name_unique(name, NULL) THEN "integrity_error"
            ELSE "created"
    IN  /\ outcome = "created" => seq.environment < MaxEnv
        /\ environments' =
              IF outcome = "created"
              THEN Insert(environments, pk,
                          Environment_save(new_environment(name, status), NULL, u))
              ELSE environments
        /\ seq' = IF outcome = "created" THEN [seq EXCEPT !.environment = pk] ELSE seq
        /\ response' = Resp("environment_create", u, method,
                            IF outcome = "created" THEN pk ELSE NULL, outcome,
                            NULL, {}, {})
        /\ UNCHANGED <<_thread_locals, inflight>>
        /\ UNCHANGED <<equipments, transfers, requests>>

\* views.environment_update
environment_update(u, method, pk, name, status) ==
    LET outcome ==
            IF ~is_authenticated(u) THEN "login"
            ELSE IF ~get_object_or_404(environments, pk) THEN "not_found"
            ELSE IF ~may(u, "app.change_environment") THEN "denied"
            ELSE IF method # "POST" THEN "form"
            ELSE IF ~EnvironmentForm_clean_name(name, pk) THEN "invalid"
            ELSE IF ~environment_name_unique(name, pk) THEN "integrity_error"
            ELSE "updated"
    IN  /\ environments' =
              IF outcome = "updated"
              THEN [environments EXCEPT ![pk] =
                        Environment_save([@ EXCEPT !.name = name, !.status = status], pk, u)]
              ELSE environments
        /\ response' = Resp("environment_update", u, method, pk, outcome, NULL, {}, {})
        /\ UNCHANGED <<_thread_locals, inflight>>
        /\ UNCHANGED <<equipments, transfers, requests, seq>>

\* views.environment_delete: env.delete() is Model.delete of the instance.
environment_delete(u, method, pk) ==
    LET outcome ==
            IF ~is_authenticated(u) THEN "login"
            ELSE IF ~get_object_or_404(environments, pk) THEN "not_found"
            ELSE IF ~may(u, "app.delete_environment") THEN "denied"
            ELSE IF method # "POST" THEN "confirm"
            ELSE "deleted"
    IN  /\ IF outcome = "deleted"
           THEN /\ environments' = Remove(environments, {pk})
                /\ equipments' = equipments_after_environment_delete(pk)
                /\ transfers' = transfers_after_environment_delete(pk)
                /\ requests' = requests_after_environment_delete(pk)
           ELSE UNCHANGED <<environments, equipments, transfers, requests>>
        /\ response' = Resp("environment_delete", u, method, pk, outcome, NULL, {}, {})
        /\ UNCHANGED <<_thread_locals, inflight>>
        /\ UNCHANGED seq

\* EnvironmentAdmin.mark_inactive.  The admin site admits staff users only and hands
\* the action the selected rows of the model's default manager.
EnvironmentAdmin_mark_inactive(u, selected) ==
    LET queryset == SoftDeleteManager_get_queryset(environments) \cap selected
    IN  /\ is_staff(u)
        /\ environments' = [k \in DOMAIN environments |->
                                IF k \in queryset
                                THEN [environments[k] EXCEPT !.ativo = FALSE]
                                ELSE environments[k]]
        /\ response' = Resp("environment_mark_inactive", u, "POST", NULL, "ok",
                            NULL, selected, {})
        /\ UNCHANGED <<_thread_locals, inflight>>
        /\ UNCHANGED <<equipments, transfers, requests, seq>>

\* EnvironmentAdmin.mark_active
EnvironmentAdmin_mark_active(u, selected) ==
    LET queryset == SoftDeleteManager_get_queryset(environments) \cap selected
    IN  /\ is_staff(u)
        /\ environments' = [k \in DOMAIN environments |->
                                IF k \in queryset
                                THEN [environments[k] EXCEPT !.ativo = TRUE]
                                ELSE environments[k]]
        /\ response' = Resp("environment_mark_active", u, "POST", NULL, "ok",
                            NULL, selected, {})
        /\ UNCHANGED <<_thread_locals, inflight>>
        /\ UNCHANGED <<equipments, transfers, requests, seq>>

\* --------------------------------------------------------------- Equipment
\* A new Equipment instance as the model form builds it before save().
new_equipment(serial, env) ==
    [serial_number |-> serial, environment |-> env, ativo |-> TRUE,
     created_by |-> None, updated_by |-> None]

\* EquipmentForm.clean_serial_number: case-insensitive clash among the rows of `objects`.
EquipmentForm_clean_serial_number(serial, instance_pk) ==
    ~ \E k \in SoftDeleteManager_get_queryset(equipments) \ {instance_pk} :
          iexact(equipments[k].serial_number, serial)

\* The form's `environment` field: empty, or a row of Environment's default manager.
EquipmentForm_environment_valid(env) ==
    env = NULL \/ env \in SoftDeleteManager_get_queryset(environments)

\* EquipmentForm.is_valid
EquipmentForm_is_valid(serial, env, instance_pk) ==
    /\ EquipmentForm_clean_serial_number(serial, instance_pk)
    /\ EquipmentForm_environment_valid(env)

\* serial_number = CharField(unique=True): the unique index, exact match, every row.
equipment_serial_unique(serial, instance_pk) ==
    ~ \E k \in DOMAIN equipments \ {instance_pk} : equipments[k].serial_number = serial

\* Equipment.save: the stamps put on instance `self` before the row is written.
Equipment_save(self, pk, user) ==
    LET stamped == IF pk = NULL /\ self.created_by = None /\ is_authenticated(user)
                   THEN [self EXCEPT !.created_by = user]
                   ELSE self
    IN  IF is_authenticated(user) THEN [stamped EXCEPT !.updated_by = user] ELSE stamped

\* The transfer row the pre_save receiver inserts.
transfer_row(pk, old_env, new_env, user) ==
    [equipment |-> pk, from_environment |-> old_env, to_environment |-> new_env,
     transferred_by |-> user]

\* The pre_save receiver without the comparison of the two environment ids.
_create_transfer_on_every_save(pk, env, user) ==
    IF pk = NULL \/ pk \notin all_objects(equipments)
    THEN transfers
    ELSE Append(transfers, transfer_row(pk, equipments[pk].environment, env, user))

\* _create_transfer_on_env_change (pre_save of Equipment): the transfer table after
\* the receiver ran for an instance with primary key `pk` and environment `env`.
_create_transfer_on_env_change(pk, env, user) ==
    IF pk = NULL \/ pk \notin all_objects(equipments)
    THEN transfers
    ELSE IF equipments[pk].environment # env
         THEN Append(transfers, transfer_row(pk, equipments[pk].environment, env, user))
         ELSE transfers

\* views.equipment_list
equipment_list(u) ==
    /\ response' = Resp("equipment_list", u, "GET", NULL,
                        IF is_authenticated(u) THEN "ok" ELSE "login", NULL, {},
                        IF is_authenticated(u)
                        THEN SoftDeleteManager_get_queryset(equipments) ELSE {})
    /\ UNCHANGED <<_thread_locals, inflight>>
    /\ UNCHANGED <<environments, equipments, transfers, requests, seq>>

\* views.equipment_detail
equipment_detail(u, pk) ==
    LET outcome == IF ~is_authenticated(u) THEN "login"
                   ELSE IF ~get_object_or_404(equipments, pk) THEN "not_found"
                   ELSE "ok"
    IN  /\ response' = Resp("equipment_detail", u, "GET", pk, outcome, NULL, {},
                            IF outcome = "ok" THEN {pk} ELSE {})
        /\ UNCHANGED <<_thread_locals, inflight>>
        /\ UNCHANGED <<environments, equipments, transfers, requests, seq>>

\* views.equipment_create
equipment_create(u, method, serial, env) ==
    LET pk == seq.equipment + 1
        outcome ==
            IF ~is_authenticated(u) THEN "login"
            ELSE IF ~may(u, "app.add_equipment") THEN "denied"
            ELSE IF method # "POST" THEN "form"
            ELSE IF ~EquipmentForm_is_valid(serial, env, NULL) THEN "invalid"
            ELSE IF ~equipment_serial_unique(serial, NULL) THEN "integrity_error"
            ELSE "created"
        saving == outcome \in {"created", "integrity_error"}
    IN  /\ outcome = "created" => seq.equipment < MaxEq
        /\ equipments' =
              IF outcome = "created"
              THEN Insert(equipments, pk, Equipment_save(new_equipment(serial, env), NULL, u))
              ELSE equipments
        /\ transfers' =
              IF saving THEN _create_transfer_on_env_change(NULL, env, u) ELSE transfers
        /\ seq' = IF outcome = "created" THEN [seq EXCEPT !.equipment = pk] ELSE seq
        /\ response' = Resp("equipment_create", u, method,
                            IF outcome = "created" THEN pk ELSE NULL, outcome,
                            env, {}, {})
        /\ UNCHANGED <<_thread_locals, inflight>>
        /\ UNCHANGED <<environments, requests>>

\* views.equipment_update.  save() sends pre_save, whose receiver inserts the
\* transfer row, before the UPDATE that the unique index can still refuse.
equipment_update(u, method, pk, serial, env) ==
    LET outcome ==
            IF ~is_authenticated(u) THEN "login"
            ELSE IF ~get_object_or_404(equipments, pk) THEN "not_found"
            ELSE IF ~may(u, "app.change_equipment") THEN "denied"
            ELSE IF method # "POST" THEN "form"
            ELSE IF ~EquipmentForm_is_valid(serial, env, pk) THEN "invalid"
            ELSE IF ~equipment_serial_unique(serial, pk) THEN "integrity_error"
            ELSE "updated"
        saving == outcome \in {"updated", "integrity_error"}
    IN  /\ transfers' =
              IF saving THEN _create_transfer_on_env_change(pk, env, u) ELSE transfers
        /\ Len(transfers') <= MaxTransfers
        /\ equipments' =
              IF outcome = "updated"
              THEN [equipments EXCEPT ![pk] =
                        Equipment_save([@ EXCEPT !.serial_number = serial,
                                                 !.environment = env], pk, u)]
              ELSE equipments
        /\ response' = Resp("equipment_update", u, method, pk, outcome, env, {}, {})
        /\ UNCHANGED <<_thread_locals, inflight>>
        /\ UNCHANGED <<environments, requests, seq>>

\* EquipmentTransfer.equipment CASCADE, applied by eq.delete().
transfers_after_equipment_delete(pk) ==
    SelectSeq(transfers, LAMBDA t : t.equipment # pk)

\* views.equipment_delete: eq.delete() is Model.delete of the instance.
equipment_delete(u, method, pk) ==
    LET outcome ==
            IF ~is_authenticated(u) THEN "login"
            ELSE IF ~get_object_or_404(equipments, pk) THEN "not_found"
            ELSE IF ~may(u, "app.delete_equipment") THEN "denied"
            ELSE IF method # "POST" THEN "confirm"
            ELSE "deleted"
    IN  /\ IF outcome = "deleted"
           THEN /\ equipments' = Remove(equipments, {pk})
                /\ transfers' = transfers_after_equipment_delete(pk)
           ELSE UNCHANGED <<equipments, transfers>>
        /\ response' = Resp("equipment_delete", u, method, pk, outcome, NULL, {}, {})
        /\ UNCHANGED <<_thread_locals, inflight>>
        /\ UNCHANGED <<environments, requests, seq>>

\* EquipmentAdmin.mark_inactive
EquipmentAdmin_mark_inactive(u, selected) ==
    LET queryset == SoftDeleteManager_get_queryset(equipments) \cap selected
    IN  /\ is_staff(u)
        /\ equipments' = [k \in DOMAIN equipments |->
                              IF k \in queryset
                              THEN [equipments[k] EXCEPT !.ativo = FALSE]
                              ELSE equipments[k]]
        /\ response' = Resp("equipment_mark_inactive", u, "POST", NULL, "ok",
                            NULL, selected, {})
        /\ UNCHANGED <<_thread_locals, inflight>>
        /\ UNCHANGED <<environments, transfers, requests, seq>>

\* EquipmentAdmin.mark_active
EquipmentAdmin_mark_active(u, selected) ==
    LET queryset == SoftDeleteManager_get_queryset(equipments) \cap selected
    IN  /\ is_staff(u)
        /\ equipments' = [k \in DOMAIN equipments |->
                              IF k \in queryset
                              THEN [equipments[k] EXCEPT !.ativo = TRUE]
                              ELSE equipments[k]]
        /\ response' = Resp("equipment_mark_active", u, "POST", NULL, "ok",
                            NULL, selected, {})
        /\ UNCHANGED <<_thread_locals, inflight>>
        /\ UNCHANGED <<environments, transfers, requests, seq>>

\* ------------------------------------------------------ EnvironmentRequest
\* A table without the unique index on (environment, user, status).
request_unique_together_unenforced(table) == TRUE

\* Meta.unique_together = (('environment', 'user', 'status'),): no two rows of
\* `table` agree on the three columns.
request_unique_together(table) ==
    \A r1, r2 \in DOMAIN table :
        (/\ table[r1].environment = table[r2].environment
         /\ table[r1].user = table[r2].user
         /\ table[r1].status = table[r2].status) => r1 = r2

\* EnvironmentRequestForm.clean: a given date must not be before date.today().
EnvironmentRequestForm_clean(date) == ~ \E d \in date : d < Today

\* The pending-request test of environment_request_create.
has_pending_request(env, u) ==
    \E r \in DOMAIN requests :
        /\ requests[r].environment = env
        /\ requests[r].user = u
        /\ requests[r].status = "pending"

\* views.environment_request_create
environment_request_create(u, method, pk, date) ==
    LET new == seq.request + 1
        row == [environment |-> pk, user |-> u, status |-> "pending"]
        outcome ==
            IF ~is_authenticated(u) THEN "login"
            ELSE IF ~get_object_or_404(environments, pk) THEN "not_found"
            ELSE IF environments[pk].status # "ativo" THEN "not_available"
            ELSE IF profile_role(u) = "admin" THEN "forbidden"
            ELSE IF has_pending_request(pk, u) THEN "duplicate"
            ELSE IF method # "POST" THEN "form"
            ELSE IF ~EnvironmentRequestForm_clean(date) THEN "invalid"
            ELSE IF ~request_unique_together(Insert(requests, new, row))
                 THEN "integrity_error"
            ELSE "created"
    IN  /\ outcome = "created" => seq.request < MaxReq
        /\ requests' = IF outcome = "created" THEN Insert(requests, new, row) ELSE requests
        /\ seq' = IF outcome = "created" THEN [seq EXCEPT !.request = new] ELSE seq
        /\ response' = Response("environment_request_create", u, method, pk, outcome,
                                NULL, {}, {}, date)
        /\ UNCHANGED <<_thread_locals, inflight>>
        /\ UNCHANGED <<environments, equipments, transfers>>

\* The add view of the registered EnvironmentRequestAdmin: a staff user fills in
\* environment (a row of the default manager), user and status; the model form
\* refuses a triple that exists.
EnvironmentRequestAdmin_add(u, env, user, status) ==
    LET new == seq.request + 1
        row == [environment |-> env, user |-> user, status |-> status]
        outcome ==
            IF env \notin SoftDeleteManager_get_queryset(environments) THEN "invalid"
            ELSE IF ~request_unique_together(Insert(requests, new, row)) THEN "invalid"
            ELSE "created"
    IN  /\ is_staff(u)
        /\ outcome = "created" => seq.request < MaxReq
        /\ requests' = IF outcome = "created" THEN Insert(requests, new, row) ELSE requests
        /\ seq' = IF outcome = "created" THEN [seq EXCEPT !.request = new] ELSE seq
        /\ response' = Resp("request_add", u, "POST",
                            IF outcome = "created" THEN new ELSE NULL, outcome,
                            env, {}, {})
        /\ UNCHANGED <<_thread_locals, inflight>>
        /\ UNCHANGED <<environments, equipments, transfers>>

\* queryset.update(status=...): one UPDATE statement over the selected rows, which
\* the unique index on (environment, user, status) refuses as a whole.
queryset_update_status(selected, status) ==
    [r \in DOMAIN requests |->
        IF r \in selected THEN [requests[r] EXCEPT !.status = status] ELSE requests[r]]

\* EnvironmentRequestAdmin.approve_requests
approve_requests(u, selected) ==
    LET updated == queryset_update_status(selected, "approved")
        outcome == IF request_unique_together(updated) THEN "ok" ELSE "integrity_error"
    IN  /\ is_staff(u)
        /\ requests' = IF outcome = "ok" THEN updated ELSE requests
        /\ response' = Resp("approve_requests", u, "POST", NULL, outcome, NULL, selected, {})
        /\ UNCHANGED <<_thread_locals, inflight>>
        /\ UNCHANGED <<environments, equipments, transfers, seq>>

\* EnvironmentRequestAdmin.reject_requests
reject_requests(u, selected) ==
    LET updated == queryset_update_status(selected, "rejected")
        outcome == IF request_unique_together(updated) THEN "ok" ELSE "integrity_error"
    IN  /\ is_staff(u)
        /\ requests' = IF outcome = "ok" THEN updated ELSE requests
        /\ response' = Resp("reject_requests", u, "POST", NULL, outcome, NULL, selected, {})
        /\ UNCHANGED <<_thread_locals, inflight>>
        /\ UNCHANGED <<environments, equipments, transfers, seq>>

\* ------------------------------------------- saves outside a request cycle
\* Environment(...).save() / env.save() where no middleware set the thread-local
\* user: get_current_user() is None.  pk = NULL saves a new instance, otherwise the
\* row loaded through all_objects.
Environment_save_outside_request(pk, name, status) ==
    LET new == seq.environment + 1
        ok == environment_name_unique(name, pk)
    IN  /\ pk = NULL \/ pk \in all_objects(environments)
        /\ (pk = NULL /\ ok) => seq.environment < MaxEnv
        /\ environments' =
              IF ~ok THEN environments
              ELSE IF pk = NULL
                   THEN Insert(environments, new,
                               Environment_save(new_environment(name, status), NULL, None))
                   ELSE [environments EXCEPT ![pk] =
                            Environment_save([@ EXCEPT !.name = name, !.status = status],
                                             pk, None)]
        /\ seq' = IF ok /\ pk = NULL THEN [seq EXCEPT !.environment = new] ELSE seq
        /\ response' = Resp("environment_save", None, "NONE",
                            IF pk = NULL /\ ok THEN new ELSE pk,
                            IF ~ok THEN "integrity_error"
                            ELSE IF pk = NULL THEN "created" ELSE "updated",
                            NULL, {}, {})
        /\ UNCHANGED <<_thread_locals, inflight>>
        /\ UNCHANGED <<equipments, transfers, requests>>

\* Equipment(...).save() / eq.save() outside a request cycle.
Equipment_save_outside_request(pk, serial, env) ==
    LET new == seq.equipment + 1
        ok == equipment_serial_unique(serial, pk)
    IN  /\ pk = NULL \/ pk \in all_objects(equipments)
        /\ env = NULL \/ env \in all_objects(environments)
        /\ (pk = NULL /\ ok) => seq.equipment < MaxEq
        /\ transfers' = _create_transfer_on_env_change(pk, env, None)
        /\ Len(transfers') <= MaxTransfers
        /\ equipments' =
              IF ~ok THEN equipments
              ELSE IF pk = NULL
                   THEN Insert(equipments, new,
                               Equipment_save(new_equipment(serial, env), NULL, None))
                   ELSE [equipments EXCEPT ![pk] =
                            Equipment_save([@ EXCEPT !.serial_number = serial,
                                                     !.environment = env], pk, None)]
        /\ seq' = IF ok /\ pk = NULL THEN [seq EXCEPT !.equipment = new] ELSE seq
        /\ response' = Resp("equipment_save", None, "NONE",
                            IF pk = NULL /\ ok THEN new ELSE pk,
                            IF ~ok THEN "integrity_error"
                            ELSE IF pk = NULL THEN "created" ELSE "updated",
                            env, {}, {})
        /\ UNCHANGED <<_thread_locals, inflight>>
        /\ UNCHANGED <<environments, requests>>

\* ------------------------------------------ CurrentUserMiddleware and threads
Threads == {"t1", "t2"}

\* _thread_locals has no attribute `user` on the thread.
Unset == "Unset"

\* get_current_user reading one slot for every thread (a module-level global).
get_current_user_shared(t) ==
    LET slot == _thread_locals[CHOOSE s \in Threads : TRUE]
    IN  IF slot = Unset THEN None ELSE slot

\* middleware.get_current_user on thread t: getattr(_thread_locals, 'user', None).
get_current_user(t) == IF _thread_locals[t] = Unset THEN None ELSE _thread_locals[t]

\* The finally block without the del.
del_thread_local_user_skipped(t) == _thread_locals

\* `del _thread_locals.user` in the finally block of CurrentUserMiddleware.__call__.
del_thread_local_user(t) == [_thread_locals EXCEPT ![t] = Unset]

\* A thread that handles no request.
Idle ==
    [pc |-> "idle", user |-> None, op |-> "none", pk |-> NULL, serial |-> << >>,
     environment |-> NULL, date |-> {}, instance |-> {}, outcome |-> "none"]

\* Where a thread is inside CurrentUserMiddleware.__call__: between the assignment
\* of _thread_locals.user and the finally block.
InHandler == {"get_response", "save_base", "save"}

\* CurrentUserMiddleware.__call__, first statement: thread t takes a POST request
\* of user u for view `op` and stores request.user in its slot.
CurrentUserMiddleware_call(t, u, op, pk, serial, env, date) ==
    /\ inflight[t].pc = "idle"
    /\ _thread_locals' = [_thread_locals EXCEPT ![t] = u]
    /\ inflight' = [inflight EXCEPT ![t] =
                       [pc |-> "get_response", user |-> u, op |-> op, pk |-> pk,
                        serial |-> serial, environment |-> env, date |-> date,
                        instance |-> {}, outcome |-> "none"]]
    /\ UNCHANGED <<environments, equipments, transfers, requests, seq, response>>

\* self.get_response(request) for views.equipment_create (POST) on thread t: the
\* view checks request.user, Equipment.save stamps with get_current_user().
get_response_equipment_create(t) ==
    LET r == inflight[t]
        pk == seq.equipment + 1
        outcome ==
            IF ~is_authenticated(r.user) THEN "login"
            ELSE IF ~may(r.user, "app.add_equipment") THEN "denied"
            ELSE IF ~EquipmentForm_is_valid(r.serial, r.environment, NULL) THEN "invalid"
            ELSE IF ~equipment_serial_unique(r.serial, NULL) THEN "integrity_error"
            ELSE "created"
    IN  /\ r.pc = "get_response"
        /\ r.op = "equipment_create"
        /\ outcome = "created" => seq.equipment < MaxEq
        /\ equipments' =
              IF outcome = "created"
              THEN Insert(equipments, pk,
                          Equipment_save(new_equipment(r.serial, r.environment), NULL,
                                         get_current_user(t)))
              ELSE equipments
        /\ transfers' =
              IF outcome \in {"created", "integrity_error"}
              THEN _create_transfer_on_env_change(NULL, r.environment, get_current_user(t))
              ELSE transfers
        /\ seq' = IF outcome = "created" THEN [seq EXCEPT !.equipment = pk] ELSE seq
        /\ inflight' = [inflight EXCEPT ![t].pc = "finally", ![t].outcome = outcome,
                                        ![t].pk = IF outcome = "created" THEN pk ELSE NULL]
        /\ UNCHANGED <<environments, requests, response, _thread_locals>>

\* self.get_response(request) for views.equipment_update (POST) on thread t, up to
\* the UPDATE statement: the view loads the row and validates the form, Equipment.save
\* stamps the instance, Model.save sends pre_save and the receiver inserts the
\* transfer row.  The instance waits in `instance` for the UPDATE.
get_response_equipment_update(t) ==
    LET r == inflight[t]
        outcome ==
            IF ~is_authenticated(r.user) THEN "login"
            ELSE IF ~get_object_or_404(equipments, r.pk) THEN "not_found"
            ELSE IF ~may(r.user, "app.change_equipment") THEN "denied"
            ELSE IF ~EquipmentForm_is_valid(r.serial, r.environment, r.pk) THEN "invalid"
            ELSE "saving"
        instance == Equipment_save([equipments[r.pk] EXCEPT !.serial_number = r.serial,
                                                            !.environment = r.environment],
                                   r.pk, get_current_user(t))
    IN  /\ r.pc = "get_response"
        /\ r.op = "equipment_update"
        /\ transfers' =
              IF outcome = "saving"
              THEN _create_transfer_on_env_change(r.pk, r.environment, get_current_user(t))
              ELSE transfers
        /\ Len(transfers') <= MaxTransfers
        /\ inflight' =
              IF outcome = "saving"
              THEN [inflight EXCEPT ![t].pc = "save_base", ![t].instance = {instance}]
              ELSE [inflight EXCEPT ![t].pc = "finally", ![t].outcome = outcome]
        /\ UNCHANGED <<environments, equipments, requests, seq, response, _thread_locals>>

\* Model.save_base after pre_save, for the instance of equipment_update on thread t:
\* the UPDATE of the row, which the unique index on serial_number can refuse (the
\* IntegrityError leaves the view as an exception); an UPDATE that finds no row is
\* followed by an INSERT.
Equipment_save_base(t) ==
    LET r == inflight[t]
        instance == CHOOSE i \in r.instance : TRUE
        ok == equipment_serial_unique(instance.serial_number, r.pk)
    IN  /\ r.pc = "save_base"
        /\ equipments' = IF ok THEN Insert(equipments, r.pk, instance) ELSE equipments
        /\ inflight' = [inflight EXCEPT ![t].pc = "finally",
                                        ![t].outcome = IF ok THEN "updated"
                                                       ELSE "integrity_error"]
        /\ UNCHANGED <<environments, transfers, requests, seq, response, _thread_locals>>

\* self.get_response(request) for views.environment_request_create (POST) on thread
\* t, up to req.save(): the availability, role, pending-request and form tests.
get_response_environment_request_create(t) ==
    LET r == inflight[t]
        outcome ==
            IF ~is_authenticated(r.user) THEN "login"
            ELSE IF ~get_object_or_404(environments, r.pk) THEN "not_found"
            ELSE IF environments[r.pk].status # "ativo" THEN "not_available"
            ELSE IF profile_role(r.user) = "admin" THEN "forbidden"
            ELSE IF has_pending_request(r.pk, r.user) THEN "duplicate"
            ELSE IF ~EnvironmentRequestForm_clean(r.date) THEN "invalid"
            ELSE "saving"
    IN  /\ r.pc = "get_response"
        /\ r.op = "environment_request_create"
        /\ inflight' =
              IF outcome = "saving"
              THEN [inflight EXCEPT ![t].pc = "save"]
              ELSE [inflight EXCEPT ![t].pc = "finally", ![t].outcome = outcome]
        /\ UNCHANGED <<environments, equipments, transfers, requests, seq, response,
                       _thread_locals>>

\* req.save() of environment_request_create on thread t: the INSERT, which the
\* unique index on (environment, user, status) and the foreign key can refuse.
EnvironmentRequest_save(t) ==
    LET r == inflight[t]
        new == seq.request + 1
        row == [environment |-> r.pk, user |-> r.user, status |-> "pending"]
        ok == /\ r.pk \in all_objects(environments)
              /\ request_unique_together(Insert(requests, new, row))
    IN  /\ r.pc = "save"
        /\ ok => seq.request < MaxReq
        /\ requests' = IF ok THEN Insert(requests, new, row) ELSE requests
        /\ seq' = IF ok THEN [seq EXCEPT !.request = new] ELSE seq
        /\ inflight' = [inflight EXCEPT ![t].pc = "finally",
                                        ![t].outcome = IF ok THEN "created"
                                                       ELSE "integrity_error"]
        /\ UNCHANGED <<environments, equipments, transfers, response, _thread_locals>>

\* CurrentUserMiddleware.__call__, finally block: runs when the view returned and
\* when it raised; the thread is free for the next request.
CurrentUserMiddleware_finally(t) ==
    LET r == inflight[t]
    IN  /\ r.pc = "finally"
        /\ _thread_locals' = del_thread_local_user(t)
        /\ inflight' = [inflight EXCEPT ![t] = Idle]
        /\ response' = Response(r.op, r.user, "POST", r.pk, r.outcome, r.environment,
                                {}, {}, r.date)
        /\ UNCHANGED <<environments, equipments, transfers, requests, seq>>

\* ------------------------------------------------------------ specifications
Init ==
    /\ environments = Empty
    /\ equipments = Empty
    /\ transfers = << >>
    /\ requests = Empty
    /\ seq = [environment |-> 0, equipment |-> 0, request |-> 0]
    /\ response = Resp("none", None, "NONE", NULL, "ok", NULL, {}, {})
    /\ _thread_locals = [t \in Threads |-> Unset]
    /\ inflight = [t \in Threads |-> Idle]

EnvIds == 1..MaxEnv
EqIds == 1..MaxEq
ReqIds == 1..MaxReq

\* The requests that carry form data from `inputs`: every POST, and one GET (a GET
\* posts no data).
Submissions(inputs) ==
    ({"POST"} \X inputs) \cup ({"GET"} \X {CHOOSE x \in inputs : TRUE})

\* Resource store: a staff user and a user without permissions create, edit,
\* deactivate, delete and read environments and equipment.
ResourceUsers == {"ana", "carl"}
ResourceSerials == { <<"X", "1">> }

Next ==
    \/ \E u \in ResourceUsers : environment_list(u)
    \/ \E u \in ResourceUsers, pk \in EnvIds : environment_detail(u, pk)
    \/ \E u \in ResourceUsers, r \in Submissions(Names) :
          environment_create(u, r[1], r[2], "disponivel")
    \/ \E u \in ResourceUsers, pk \in EnvIds, r \in Submissions(Names) :
          environment_update(u, r[1], pk, r[2], "disponivel")
    \/ \E u \in ResourceUsers, m \in Methods, pk \in EnvIds : environment_delete(u, m, pk)
    \/ \E u \in ResourceUsers, sel \in SUBSET EnvIds : EnvironmentAdmin_mark_inactive(u, sel)
    \/ \E u \in ResourceUsers, sel \in SUBSET EnvIds : EnvironmentAdmin_mark_active(u, sel)
    \/ \E u \in ResourceUsers : equipment_list(u)
    \/ \E u \in ResourceUsers, pk \in EqIds : equipment_detail(u, pk)
    \/ \E u \in ResourceUsers, r \in Submissions(ResourceSerials \X ({NULL} \cup EnvIds)) :
          equipment_create(u, r[1], r[2][1], r[2][2])
    \/ \E u \in ResourceUsers, pk \in EqIds,
          r \in Submissions(ResourceSerials \X ({NULL} \cup EnvIds)) :
          equipment_update(u, r[1], pk, r[2][1], r[2][2])
    \/ \E u \in ResourceUsers, m \in Methods, pk \in EqIds : equipment_delete(u, m, pk)
    \/ \E u \in ResourceUsers, sel \in SUBSET EqIds : EquipmentAdmin_mark_inactive(u, sel)
    \/ \E u \in ResourceUsers, sel \in SUBSET EqIds : EquipmentAdmin_mark_active(u, sel)

Spec == Init /\ [][Next]_vars

\* Audit stamps: two authorised users save environments and equipment through the
\* views, and instances are saved outside any request (no current user).
AuditUsers == {"ana", "bob"}
AuditNames == { <<"L", "a">>, <<"S", "1">> }
AuditSerials == { <<"X", "1">> }

NextAudit ==
    \/ \E u \in AuditUsers, n \in AuditNames : environment_create(u, "POST", n, "disponivel")
    \/ \E u \in AuditUsers, pk \in EnvIds, n \in AuditNames :
          environment_update(u, "POST", pk, n, "disponivel")
    \/ \E u \in AuditUsers, s \in AuditSerials : equipment_create(u, "POST", s, NULL)
    \/ \E u \in AuditUsers, pk \in EqIds, s \in AuditSerials :
          equipment_update(u, "POST", pk, s, NULL)
    \/ \E pk \in {NULL} \cup EnvIds, n \in AuditNames :
          Environment_save_outside_request(pk, n, "disponivel")
    \/ \E pk \in {NULL} \cup EqIds, s \in AuditSerials :
          Equipment_save_outside_request(pk, s, NULL)

SpecAudit == Init /\ [][NextAudit]_vars

\* Request workflow: the staff user manages environments and requests; every user
\* may submit a request.
RequestNames == { <<"L", "a">> }
Requesters == {"bob", "carl"}

NextRequests ==
    \/ \E n \in RequestNames, st \in STATUS_CHOICES : environment_create("ana", "POST", n, st)
    \/ \E pk \in EnvIds, n \in RequestNames, st \in STATUS_CHOICES :
          environment_update("ana", "POST", pk, n, st)
    \/ \E pk \in EnvIds : environment_delete("ana", "POST", pk)
    \/ \E u \in Users, pk \in EnvIds, r \in Submissions(DateInputs) :
          environment_request_create(u, r[1], pk, r[2])
    \/ \E env \in EnvIds, user \in Requesters, st \in REQUEST_STATUS_CHOICES :
          EnvironmentRequestAdmin_add("ana", env, user, st)
    \/ \E sel \in SUBSET ReqIds : approve_requests("ana", sel)
    \/ \E sel \in SUBSET ReqIds : reject_requests("ana", sel)

SpecRequests == Init /\ [][NextRequests]_vars

\* Requests on several threads: an environment saved outside a request, and
\* equipment created and moved by concurrent requests of a staff user and a
\* permitted user.
ThreadUsers == {"ana", "bob"}
ThreadNames == { <<"L", "a">> }
ThreadSerials == { <<"X", "1">> }
ThreadEnvs == {NULL, 1}

NextThreads ==
    \/ \E n \in ThreadNames : Environment_save_outside_request(NULL, n, "disponivel")
    \/ \E t \in Threads, u \in ThreadUsers, s \in ThreadSerials :
          CurrentUserMiddleware_call(t, u, "equipment_create", NULL, s, NULL, {})
    \/ \E t \in Threads, u \in ThreadUsers, pk \in EqIds, s \in ThreadSerials,
          env \in ThreadEnvs :
          CurrentUserMiddleware_call(t, u, "equipment_update", pk, s, env, {})
    \/ \E t \in Threads : get_response_equipment_create(t)
    \/ \E t \in Threads : get_response_equipment_update(t)
    \/ \E t \in Threads : Equipment_save_base(t)
    \/ \E t \in Threads : CurrentUserMiddleware_finally(t)

SpecThreads == Init /\ [][NextThreads]_vars

\* Concurrent submissions: an environment saved outside a request with the status
\* the submit view asks for ('ativo', which Model.save stores unvalidated and no
\* form of the views accepts), and requests submitted on several threads.
Submitters == {"ana", "bob"}

NextSubmits ==
    \/ \E n \in ThreadNames : Environment_save_outside_request(NULL, n, "ativo")
    \/ \E t \in Threads, u \in Submitters, pk \in EnvIds :
          CurrentUserMiddleware_call(t, u, "environment_request_create", pk,
                                     << >>, NULL, {Today})
    \/ \E t \in Threads : get_response_environment_request_create(t)
    \/ \E t \in Threads : EnvironmentRequest_save(t)
    \/ \E t \in Threads : CurrentUserMiddleware_finally(t)
    \/ \E sel \in SUBSET ReqIds : approve_requests("ana", sel)

SpecSubmits == Init /\ [][NextSubmits]_vars

\* Lifecycle of rows and their dependants: a permitted user creates, moves and
\* deletes an environment and equipment (two equipments whose serial numbers differ
\* in case only), the staff user deactivates equipment and records a request.
LifecycleNames == { <<"L", "a">> }

NextLifecycle ==
    \/ \E n \in LifecycleNames : environment_create("bob", "POST", n, "disponivel")
    \/ \E pk \in EnvIds : environment_delete("bob", "POST", pk)
    \/ \E s \in Serials, env \in {NULL} \cup EnvIds : equipment_create("bob", "POST", s, env)
    \/ \E pk \in EqIds, s \in Serials, env \in {NULL} \cup EnvIds :
          equipment_update("bob", "POST", pk, s, env)
    \/ \E pk \in EqIds : equipment_delete("bob", "POST", pk)
    \/ \E pk \in EqIds : EquipmentAdmin_mark_inactive("ana", {pk})
    \/ \E env \in EnvIds : EnvironmentRequestAdmin_add("ana", env, "carl", "pending")

SpecLifecycle == Init /\ [][NextLifecycle]_vars

\* ------------------------------------------------------------------ claims
EnvironmentSaves == {"environment_create", "environment_update", "environment_save"}
EquipmentSaves == {"equipment_create", "equipment_update", "equipment_save"}

\* What C1 asks of one table across one step: a row that existed keeps its
\* created_by, and takes the saving user as updated_by when an authenticated user
\* saved it; a row that is new carries the saving user in both stamps, or no
\* created_by when nobody was current.
AuditStep(before, after, saves) ==
    \A pk \in DOMAIN after :
        IF pk \in DOMAIN before
        THEN /\ after[pk].created_by = before[pk].created_by
             /\ (/\ response'.op \in saves
                 /\ response'.pk = pk
                 /\ response'.outcome = "updated"
                 /\ is_authenticated(response'.user))
                => after[pk].updated_by = response'.user
        ELSE /\ response'.op \in saves
             /\ IF is_authenticated(response'.user)
                THEN /\ after[pk].created_by = response'.user
                     /\ after[pk].updated_by = response'.user
                ELSE after[pk].created_by = None

\* C1: for Environment and Equipment, the first save made while user A is current
\* gives created_by = updated_by = A; a later save while B is current sets
\* updated_by = B and keeps created_by; created_by is assigned on the first save only
\* and never overwritten, also for a row created while nobody was current.
C1_AuditStamps ==
    [][ /\ AuditStep(environments, environments', EnvironmentSaves)
        /\ AuditStep(equipments, equipments', EquipmentSaves) ]_vars

\* An environment created by ana and later saved by bob, and an equipment created
\* outside any request and later saved by an authenticated user.
C1_Witness ==
    /\ \E pk \in DOMAIN environments :
          /\ environments[pk].created_by = "ana"
          /\ environments[pk].updated_by = "bob"
    /\ \E pk \in DOMAIN equipments :
          /\ equipments[pk].created_by = None
          /\ equipments[pk].updated_by \in Users

\* C2: a save of an Equipment that exists and whose environment differs from the
\* persisted one inserts exactly one EquipmentTransfer (persisted -> new); a save that
\* keeps the environment, and the save that creates the Equipment, insert none.
C2_TransferOnEnvChange ==
    [][ (/\ response'.op \in EquipmentSaves
         /\ response'.outcome \in {"created", "updated", "integrity_error"})
        => LET pk == response'.pk
               new == response'.environment
               n == Len(transfers)
           IN  IF pk \in DOMAIN equipments /\ equipments[pk].environment # new
               THEN /\ Len(transfers') = n + 1
                    /\ SubSeq(transfers', 1, n) = transfers
                    /\ transfers'[n + 1].equipment = pk
                    /\ transfers'[n + 1].from_environment = equipments[pk].environment
                    /\ transfers'[n + 1].to_environment = new
               ELSE transfers' = transfers ]_vars

\* An update has just moved an equipment from one environment to another one, and
\* the last transfer row says so.
C2_Witness ==
    /\ response.op = "equipment_update"
    /\ response.outcome = "updated"
    /\ Len(transfers) = 2
    /\ transfers[1].from_environment = NULL
    /\ transfers[2].equipment = response.pk
    /\ transfers[2].from_environment \in EnvIds
    /\ transfers[2].to_environment \in EnvIds \ {transfers[2].from_environment}
    /\ equipments[response.pk].environment = transfers[2].to_environment

\* C4: a delete through environment_delete / equipment_delete (POST, authorised user)
\* is a soft delete: the row stays in the table with ativo = FALSE and all_objects
\* still finds it.
C4_DeleteIsSoft ==
    /\ (response.op = "environment_delete" /\ response.outcome = "deleted")
       => /\ response.pk \in all_objects(environments)
          /\ ~environments[response.pk].ativo
    /\ (response.op = "equipment_delete" /\ response.outcome = "deleted")
       => /\ response.pk \in all_objects(equipments)
          /\ ~equipments[response.pk].ativo

\* C7: the default read paths (environment_list, environment_detail, equipment_list,
\* equipment_detail, get_object_or_404 of the write views) never return a row whose
\* ativo is FALSE; such a row is found through all_objects only.
C7_DefaultReadsActiveOnly ==
    /\ response.op \in {"environment_list", "environment_detail"}
       => \A pk \in response.result : pk \in DOMAIN environments /\ environments[pk].ativo
    /\ response.op = "environment_detail"
       => \A pk \in response.selected : pk \in DOMAIN equipments /\ equipments[pk].ativo
    /\ response.op \in {"equipment_list", "equipment_detail"}
       => \A pk \in response.result : pk \in DOMAIN equipments /\ equipments[pk].ativo
    /\ (/\ response.op \in {"environment_update", "environment_delete"}
        /\ response.outcome \in {"denied", "form", "confirm", "invalid", "updated"})
       => environments[response.pk].ativo
    /\ (/\ response.op \in {"equipment_update", "equipment_delete"}
        /\ response.outcome \in {"denied", "form", "confirm", "invalid", "updated"})
       => equipments[response.pk].ativo
    /\ \A pk \in DOMAIN environments :
          ~environments[pk].ativo
          => /\ pk \in all_objects(environments)
             /\ ~get_object_or_404(environments, pk)
    /\ \A pk \in DOMAIN equipments :
          ~equipments[pk].ativo
          => /\ pk \in all_objects(equipments)
             /\ ~get_object_or_404(equipments, pk)

\* The list was just served while one environment is inactive and another active:
\* it shows the active one only.
C7_Witness ==
    /\ response.op = "environment_list"
    /\ response.outcome = "ok"
    /\ \E a, b \in DOMAIN environments :
          /\ environments[a].ativo
          /\ ~environments[b].ativo
          /\ response.result = {a}

\* C8: restore undoes the soft delete: after mark_active was applied to a row that
\* had been marked inactive, the row is active (and listed by default) again.
C8_RestoreReactivates ==
    /\ response.op = "environment_mark_active"
       => \A pk \in response.selected \cap DOMAIN environments :
              /\ environments[pk].ativo
              /\ pk \in SoftDeleteManager_get_queryset(environments)
    /\ response.op = "equipment_mark_active"
       => \A pk \in response.selected \cap DOMAIN equipments :
              /\ equipments[pk].ativo
              /\ pk \in SoftDeleteManager_get_queryset(equipments)

\* C9: environment_create never persists an Environment whose name equals, ignoring
\* case, the name of another row, active or inactive.
C9_NameUniqueIgnoringCase ==
    (response.op = "environment_create" /\ response.outcome = "created")
    => \A k \in DOMAIN environments \ {response.pk} :
           ~iexact(environments[k].name, environments[response.pk].name)

\* The cases of a submit that C3 and C6 speak about: an authenticated user asks for
\* an environment the default manager finds.
SubmitStep ==
    /\ response'.op = "environment_request_create"
    /\ is_authenticated(response'.user)
    /\ get_object_or_404(environments, response'.pk)

\* The step inserted exactly one row: a pending request of user u for environment pk.
SubmitCreated(pk, u) ==
    /\ response'.outcome = "created"
    /\ \E r \in DOMAIN requests' \ DOMAIN requests :
          /\ requests' = Insert(requests, r, [environment |-> pk, user |-> u,
                                              status |-> "pending"])

\* The well-formed submission of a user who may ask: POST, valid form, not an admin.
SubmitEligible ==
    /\ response'.method = "POST"
    /\ profile_role(response'.user) # "admin"
    /\ EnvironmentRequestForm_clean(response'.date)

\* C3: a submit for an environment whose status is not 'disponivel' fails as
\* not-available and creates nothing; for a 'disponivel' environment, a non-admin
\* user without a pending request who posts a valid form gets a new pending request.
C3_SubmitByAvailability ==
    [][ SubmitStep =>
        LET pk == response'.pk
            u == response'.user
        IN  /\ environments[pk].status # "disponivel"
               => response'.outcome = "not_available" /\ requests' = requests
            /\ (/\ environments[pk].status = "disponivel"
                /\ SubmitEligible
                /\ ~has_pending_request(pk, u))
               => SubmitCreated(pk, u) ]_vars

\* C5: approved and rejected are terminal: no step changes the status of a request
\* that is approved or rejected.
C5_DecidedIsTerminal ==
    [][ \A r \in DOMAIN requests \cap DOMAIN requests' :
            requests[r].status \in {"approved", "rejected"}
            => requests'[r].status = requests[r].status ]_vars

\* C6: a submit while the user has a pending request for the environment fails as a
\* duplicate and creates nothing; once the earlier request is approved or rejected
\* (and none is pending), a new submit creates a pending request.
C6_DuplicateThenResubmit ==
    [][ (/\ SubmitStep
         /\ environments[response'.pk].status = "disponivel"
         /\ SubmitEligible)
        => LET pk == response'.pk
               u == response'.user
               decided == \E r \in DOMAIN requests :
                              /\ requests[r].environment = pk
                              /\ requests[r].user = u
                              /\ requests[r].status \in {"approved", "rejected"}
           IN  IF has_pending_request(pk, u)
               THEN response'.outcome = "duplicate" /\ requests' = requests
               ELSE decided => SubmitCreated(pk, u) ]_vars

\* The status a bulk action gives.
BulkTarget(op) == IF op = "approve_requests" THEN "approved" ELSE "rejected"

\* Request r alone may take status `target`: it is pending and no other row holds
\* its (environment, user) with that status.
CanTransition(r, target) ==
    /\ requests[r].status = "pending"
    /\ ~ \E o \in DOMAIN requests \ {r} :
            /\ requests[o].environment = requests[r].environment
            /\ requests[o].user = requests[r].user
            /\ requests[o].status = target

\* C10: a bulk approve / reject is one independent transition per id: a selected
\* request that is pending and can take the new status ends in it, whatever happens
\* to the other selected ids.
C10_BulkIndependent ==
    [][ response'.op \in {"approve_requests", "reject_requests"}
        => \A r \in response'.selected \cap DOMAIN requests :
               CanTransition(r, BulkTarget(response'.op))
               => requests'[r].status = BulkTarget(response'.op) ]_vars

\* The number of transfer rows of equipment pk among `rows`.
TransfersOf(rows, pk) == Cardinality({i \in DOMAIN rows : rows[i].equipment = pk})

\* C11: every change of an equipment's persisted environment has exactly one
\* transfer row: across any operation (an environment's deletion included) the
\* number of transfer rows of an equipment grows by one when its persisted
\* environment changes and by none otherwise, and the newest transfer row names the
\* environment the equipment now has.
C11_OneTransferPerEnvChange ==
    [][ \A pk \in DOMAIN equipments \cap DOMAIN equipments' :
          LET changed == equipments'[pk].environment # equipments[pk].environment
          IN  /\ TransfersOf(transfers', pk) =
                    TransfersOf(transfers, pk) + (IF changed THEN 1 ELSE 0)
              /\ changed
                 => /\ transfers'[Len(transfers')].equipment = pk
                    /\ transfers'[Len(transfers')].to_environment
                          = equipments'[pk].environment ]_vars

\* C12: the transfer row is written only after the Equipment row was persisted: a
\* save of an Equipment that fails on the unique index of serial_number leaves the
\* Equipment rows and the EquipmentTransfer rows as they were.
C12_FailedSaveLeavesNoTransfer ==
    [][ (/\ response'.op \in EquipmentSaves
         /\ response'.outcome = "integrity_error")
        => /\ equipments' = equipments
           /\ transfers' = transfers ]_vars

\* C13: whenever CurrentUserMiddleware has finished a request on a thread, whether
\* the view returned or raised, the thread's slot is cleared: get_current_user() on a
\* thread that handles no request is None, never the user of an earlier request.
C13_SlotClearedAfterRequest ==
    \A t \in Threads : inflight[t].pc = "idle" => get_current_user(t) = None

\* A request of an authenticated user has just ended with an exception, after an
\* earlier request that returned normally (it inserted a row), and no thread is
\* handling a request.
C13_Witness ==
    /\ response.outcome = "integrity_error"
    /\ is_authenticated(response.user)
    /\ \E r \in DOMAIN requests : requests[r].user = response.user
    /\ \A t \in Threads : inflight[t].pc = "idle" /\ _thread_locals[t] = Unset

\* C14: inside a request, get_current_user() is the user of that same request,
\* whatever the other threads set or clear; so the created_by / updated_by of a row a
\* request writes and the transferred_by of a transfer it inserts are its own user.
C14_ActorIsolation ==
    [][ \A t \in Threads :
          /\ inflight[t].pc \in InHandler => get_current_user(t) = inflight[t].user
          /\ (inflight[t].pc \in InHandler /\ inflight'[t] # inflight[t])
             => /\ \A pk \in DOMAIN equipments' \ DOMAIN equipments :
                      /\ equipments'[pk].created_by = inflight[t].user
                      /\ equipments'[pk].updated_by = inflight[t].user
                /\ \A pk \in DOMAIN equipments' \cap DOMAIN equipments :
                      equipments'[pk] # equipments[pk]
                      => equipments'[pk].updated_by = inflight[t].user
                /\ \A i \in (Len(transfers) + 1)..Len(transfers') :
                      transfers'[i].transferred_by = inflight[t].user ]_vars

\* Two threads are inside requests of different users, and the table holds an
\* equipment created by one user and last saved by another and a transfer row.
C14_Witness ==
    /\ \A t \in Threads : inflight[t].pc \in InHandler
    /\ inflight["t1"].user # inflight["t2"].user
    /\ \E pk \in DOMAIN equipments :
          /\ equipments[pk].created_by \in Users
          /\ equipments[pk].updated_by \in Users \ {equipments[pk].created_by}
    /\ \E i \in DOMAIN transfers : transfers[i].transferred_by \in Users

\* C15: in every reachable state, also after two concurrent submits of one user for
\* one environment that both passed the view's pending-request test, no two
\* EnvironmentRequest rows share (environment, user, status); in particular at most
\* one request of a user for an environment is pending.
C15_OneRequestPerTriple ==
    \A r1, r2 \in DOMAIN requests :
        (/\ requests[r1].environment = requests[r2].environment
         /\ requests[r1].user = requests[r2].user
         /\ requests[r1].status = requests[r2].status) => r1 = r2

\* A submit that had passed the pending-request test has just been refused by the
\* unique index, because a concurrent submit of the same user inserted first.
C15_Witness ==
    /\ response.op = "environment_request_create"
    /\ response.outcome = "integrity_error"
    /\ has_pending_request(response.pk, response.user)

\* C16: equipment_update reaches an inactive Equipment: for a row whose ativo is
\* FALSE the view loads it (no 404), persists the posted change, and records a
\* transfer (old -> new) when the posted environment differs.
C16_UpdateReachesInactive ==
    [][ (/\ response'.op = "equipment_update"
         /\ response'.pk \in DOMAIN equipments
         /\ ~equipments[response'.pk].ativo)
        => LET pk == response'.pk
               n == Len(transfers)
           IN  /\ response'.outcome # "not_found"
               /\ response'.outcome = "updated"
                  => /\ equipments'[pk].environment = response'.environment
                     /\ equipments[pk].environment # response'.environment
                        => /\ Len(transfers') = n + 1
                           /\ transfers'[n + 1].equipment = pk
                           /\ transfers'[n + 1].to_environment = response'.environment
    ]_vars

\* C17: the transfer history is append-only: no operation of the views removes a
\* transfer row or changes its equipment, from_environment or to_environment; the
\* rows of before stay, in place, and rows are only added.
C17_TransfersAppendOnly ==
    [][ /\ Len(transfers') >= Len(transfers)
        /\ \A i \in DOMAIN transfers :
              /\ transfers'[i].equipment = transfers[i].equipment
              /\ transfers'[i].from_environment = transfers[i].from_environment
              /\ transfers'[i].to_environment = transfers[i].to_environment ]_vars

\* C18: the deletion of an Environment row sets to NULL the environment of every
\* Equipment that pointed to it, deletes no Equipment row and deletes exactly the
\* EnvironmentRequest rows of that environment; the deletion of an Equipment row
\* deletes exactly the EquipmentTransfer rows of that equipment and no Environment.
C18_DeleteCascades ==
    [][ /\ (response'.op = "environment_delete" /\ response'.outcome = "deleted")
           => LET pk == response'.pk
              IN  /\ pk \notin DOMAIN environments'
                  /\ DOMAIN equipments' = DOMAIN equipments
                  /\ \A k \in DOMAIN equipments :
                        equipments'[k] =
                            IF equipments[k].environment = pk
                            THEN [equipments[k] EXCEPT !.environment = NULL]
                            ELSE equipments[k]
                  /\ DOMAIN requests' =
                        {r \in DOMAIN requests : requests[r].environment # pk}
                  /\ \A r \in DOMAIN requests' : requests'[r] = requests[r]
        /\ (response'.op = "equipment_delete" /\ response'.outcome = "deleted")
           => LET pk == response'.pk
              IN  /\ pk \notin DOMAIN equipments'
                  /\ environments' = environments
                  /\ TransfersOf(transfers', pk) = 0
                  /\ Len(transfers') = Len(transfers) - TransfersOf(transfers, pk)
                  /\ \A k \in DOMAIN equipments' :
                        /\ equipments'[k] = equipments[k]
                        /\ TransfersOf(transfers', k) = TransfersOf(transfers, k) ]_vars

\* The only environment there ever was has just been deleted: an equipment that had
\* been moved into it is still there with no environment (its transfer row lost the
\* reference too), and the request recorded for it is gone.
C18_Witness ==
    /\ response.op = "environment_delete"
    /\ response.outcome = "deleted"
    /\ seq.environment = 1
    /\ seq.request > 0
    /\ requests = Empty
    /\ \E k \in DOMAIN equipments, i \in DOMAIN transfers :
          /\ equipments[k].environment = NULL
          /\ transfers[i].equipment = k
          /\ transfers[i].from_environment = NULL
          /\ transfers[i].to_environment = NULL

\* C19: an operation that marks rows inactive while an authenticated user is
\* current sets ativo = FALSE and updated_by = that user on every row it marks, and
\* leaves an Equipment's environment as it was.
C19_MarkInactiveStamps ==
    [][ /\ (response'.op = "environment_mark_inactive" /\ is_authenticated(response'.user))
           => \A pk \in response'.selected \cap SoftDeleteManager_get_queryset(environments) :
                  /\ ~environments'[pk].ativo
                  /\ environments'[pk].updated_by = response'.user
        /\ (response'.op = "equipment_mark_inactive" /\ is_authenticated(response'.user))
           => \A pk \in response'.selected \cap SoftDeleteManager_get_queryset(equipments) :
                  /\ ~equipments'[pk].ativo
                  /\ equipments'[pk].updated_by = response'.user
                  /\ equipments'[pk].environment = equipments[pk].environment ]_vars

\* The first precondition of a submit that fails, in the order availability, role,
\* pending request, date; "none" when all hold.
FirstFailure(pk, u, date) ==
    IF environments[pk].status # "disponivel" THEN "not_available"
    ELSE IF profile_role(u) = "admin" THEN "forbidden"
    ELSE IF has_pending_request(pk, u) THEN "duplicate"
    ELSE IF ~EnvironmentRequestForm_clean(date) THEN "invalid"
    ELSE "none"

\* C20: a submit reports the first precondition that fails, in the order
\* availability, requester role, pending request, date; a requester whose role is
\* admin gets not-available for an unavailable environment and forbidden for an
\* available one, and never a request; a failed submit leaves the requests as they
\* were.
C20_SubmitPreconditionOrder ==
    [][ (SubmitStep /\ response'.method = "POST")
        => LET failure == FirstFailure(response'.pk, response'.user, response'.date)
           IN  /\ failure # "none" => response'.outcome = failure
               /\ response'.outcome # "created" => requests' = requests
               /\ profile_role(response'.user) = "admin" => requests' = requests ]_vars

\* The permission each write view asks for.
PermissionOf(op) ==
    CASE op = "environment_create" -> "app.add_environment"
      [] op = "environment_update" -> "app.change_environment"
      [] op = "environment_delete" -> "app.delete_environment"
      [] op = "equipment_create" -> "app.add_equipment"
      [] op = "equipment_update" -> "app.change_equipment"
      [] op = "equipment_delete" -> "app.delete_equipment"

WriteViews ==
    {"environment_create", "environment_update", "environment_delete",
     "equipment_create", "equipment_update", "equipment_delete"}

\* C21: a request to one of the six write views by a user who is neither staff nor
\* holder of the matching add / change / delete permission leaves every Environment,
\* Equipment and EquipmentTransfer row unchanged; so does a GET request to any of
\* them by any user.
C21_AuthorizationFrame ==
    [][ (/\ response'.op \in WriteViews
         /\ \/ response'.method = "GET"
            \/ /\ ~is_staff(response'.user)
               /\ ~has_perm(response'.user, PermissionOf(response'.op)))
        => /\ environments' = environments
           /\ equipments' = equipments
           /\ transfers' = transfers ]_vars

\* A user without the delete permission has just posted the deletion of an
\* environment that holds an equipment with a transfer row: the view refused, and
\* the rows are there.
C21_Witness ==
    /\ response.op = "environment_delete"
    /\ response.method = "POST"
    /\ response.user = "carl"
    /\ response.outcome = "denied"
    /\ response.pk \in DOMAIN environments
    /\ \E k \in DOMAIN equipments, i \in DOMAIN transfers :
          /\ equipments[k].environment = response.pk
          /\ transfers[i].equipment = k
          /\ transfers[i].to_environment = response.pk

====
